---------------------------- MODULE Spec2Model ----------------------------
(***************************************************************************)
(* The Schema proxy of the Arrow MATLAB interface                          *)
(* (matlab/src/cpp/arrow/matlab/tabular/proxy/schema.cc).                  *)
(*                                                                         *)
(* A Schema proxy holds one arrow::Schema (an ordered list of fields) and  *)
(* answers five methods.  Every call gets a fresh method Context with an   *)
(* outputs slot and an error slot.  Strings are UTF-16 on the MATLAB side  *)
(* (sequences of 16-bit code units) and UTF-8 on the Arrow side (sequences *)
(* of bytes); indices are 1-based on the MATLAB side and 0-based on the    *)
(* Arrow side.                                                             *)
(***************************************************************************)
EXTENDS Integers, Sequences, FiniteSets, TLC

\* ------------------------------------------------------------------------
\* Bounds of the model.

\* The longest FieldProxyIDs sequence handed to make.
MaxFields == 3

\* The number of method calls made on the proxy after make.
MaxCalls == 2

\* ------------------------------------------------------------------------
\* int32_t, as Context inputs carry it.

MinInt32 == -2147483647 - 1

MaxInt32 == 2147483647

\* ------------------------------------------------------------------------
\* arrow::Result / arrow::Status, as the MATLAB_*_WITH_CONTEXT macros see
\* them: a value or a failure.

Ok(v) == [ok |-> TRUE, value |-> v, message |-> ""]

StatusInvalid(msg) == [ok |-> FALSE, value |-> <<>>, message |-> msg]

\* The failure of either conversion.
Invalid == StatusInvalid("Invalid: malformed Unicode string")

\* ------------------------------------------------------------------------
\* arrow/util/utf8.h: strict conversions between UTF-8 bytes and UTF-16
\* code units, each through the sequence of code points.

\* The length of the UTF-8 sequence a lead byte announces; 0 for a byte
\* that cannot lead (a continuation byte, 0xC0, 0xC1, 0xF5..0xFF).
UTF8SequenceLength(lead) ==
    IF lead < 128 THEN 1
    ELSE IF lead >= 194 /\ lead <= 223 THEN 2
    ELSE IF lead >= 224 /\ lead <= 239 THEN 3
    ELSE IF lead >= 240 /\ lead <= 244 THEN 4
    ELSE 0

IsTrail(byte) == byte >= 128 /\ byte <= 191

\* The code point of the first n bytes of b (n as announced by b[1]).
UTF8CodePoint(b, n) ==
    IF n = 1 THEN b[1]
    ELSE IF n = 2 THEN (b[1] - 192) * 64 + (b[2] - 128)
    ELSE IF n = 3 THEN (b[1] - 224) * 4096 + (b[2] - 128) * 64 + (b[3] - 128)
    ELSE (b[1] - 240) * 262144 + (b[2] - 128) * 4096 + (b[3] - 128) * 64
         + (b[4] - 128)

\* The least code point an n-byte sequence may encode (below it: overlong).
UTF8MinCodePoint(n) ==
    IF n = 1 THEN 0 ELSE IF n = 2 THEN 128 ELSE IF n = 3 THEN 2048 ELSE 65536

IsSurrogate(cp) == cp >= 55296 /\ cp <= 57343

IsCodePoint(cp) == cp >= 0 /\ cp <= 1114111 /\ ~IsSurrogate(cp)

RECURSIVE DecodeUTF8(_)
DecodeUTF8(b) ==
    IF b = <<>> THEN Ok(<<>>)
    ELSE LET n == UTF8SequenceLength(b[1])
         IN  IF n = 0 \/ Len(b) < n THEN Invalid
             ELSE IF \E k \in 2..n : ~IsTrail(b[k]) THEN Invalid
             ELSE LET cp == UTF8CodePoint(b, n)
                  IN  IF cp < UTF8MinCodePoint(n) \/ ~IsCodePoint(cp)
                      THEN Invalid
                      ELSE LET rest == DecodeUTF8(SubSeq(b, n + 1, Len(b)))
                           IN  IF rest.ok THEN Ok(<<cp>> \o rest.value)
                               ELSE Invalid

RECURSIVE EncodeUTF8(_)
EncodeUTF8(cps) ==
    IF cps = <<>> THEN <<>>
    ELSE LET cp == cps[1]
             head ==
                 IF cp < 128 THEN <<cp>>
                 ELSE IF cp < 2048 THEN <<192 + (cp \div 64), 128 + (cp % 64)>>
                 ELSE IF cp < 65536
                      THEN <<224 + (cp \div 4096), 128 + ((cp \div 64) % 64),
                             128 + (cp % 64)>>
                 ELSE <<240 + (cp \div 262144), 128 + ((cp \div 4096) % 64),
                        128 + ((cp \div 64) % 64), 128 + (cp % 64)>>
         IN  head \o EncodeUTF8(Tail(cps))

IsLeadSurrogate(u) == u >= 55296 /\ u <= 56319

IsTrailSurrogate(u) == u >= 56320 /\ u <= 57343

RECURSIVE DecodeUTF16(_)
DecodeUTF16(u) ==
    IF u = <<>> THEN Ok(<<>>)
    ELSE IF IsTrailSurrogate(u[1]) THEN Invalid
    ELSE IF IsLeadSurrogate(u[1])
         THEN IF Len(u) < 2 \/ ~IsTrailSurrogate(u[2]) THEN Invalid
              ELSE LET cp == 65536 + (u[1] - 55296) * 1024 + (u[2] - 56320)
                       rest == DecodeUTF16(SubSeq(u, 3, Len(u)))
                   IN  IF rest.ok THEN Ok(<<cp>> \o rest.value) ELSE Invalid
    ELSE LET rest == DecodeUTF16(Tail(u))
         IN  IF rest.ok THEN Ok(<<u[1]>> \o rest.value) ELSE Invalid

RECURSIVE EncodeUTF16(_)
EncodeUTF16(cps) ==
    IF cps = <<>> THEN <<>>
    ELSE LET cp == cps[1]
             head ==
                 IF cp < 65536 THEN <<cp>>
                 ELSE <<55296 + ((cp - 65536) \div 1024),
                        56320 + ((cp - 65536) % 1024)>>
         IN  head \o EncodeUTF16(Tail(cps))

\* arrow::util::UTF16StringToUTF8
UTF16StringToUTF8(source) ==
    LET cps == DecodeUTF16(source)
    IN  IF cps.ok THEN Ok(EncodeUTF8(cps.value)) ELSE Invalid

\* arrow::util::UTF8StringToUTF16
UTF8StringToUTF16(source) ==
    LET cps == DecodeUTF8(source)
    IN  IF cps.ok THEN Ok(EncodeUTF16(cps.value)) ELSE Invalid


\* ------------------------------------------------------------------------
\* arrow::Field and arrow::Schema, as far as the proxy uses them.  A field
\* is a name (UTF-8 bytes) and a type (its rendering, UTF-8 bytes); a schema
\* is the sequence of its fields.

Field(name, type) == [name |-> name, type |-> type]

\* What std::shared_ptr<arrow::Field>{nullptr} stands for.
NullField == [name |-> <<>>, type |-> <<>>]

\* "int8" and "bool"
Int8Type == <<105, 110, 116, 56>>

BoolType == <<98, 111, 111, 108>>

\* arrow::Schema::num_fields
num_fields(schema) == Len(schema)

\* arrow::Schema::field_names
field_names(schema) == [k \in 1..Len(schema) |-> schema[k].name]

\* arrow::Schema::field(i): 0-based and unchecked.  Outside 0..n-1 it reads
\* past the vector of fields, and yields whatever the build finds there: a
\* null pointer or some field.
field(schema, i) ==
    IF i >= 0 /\ i < Len(schema) THEN {schema[i + 1]}
    ELSE {NullField} \cup {schema[k] : k \in 1..Len(schema)}

\* The positions (1-based) of the fields called name.
FieldPositions(schema, name) == {k \in 1..Len(schema) : schema[k].name = name}

\* arrow::Schema::GetFieldByName: the field of that name when exactly one
\* field has it, and nullptr otherwise.
GetFieldByName(schema, name) ==
    LET at == FieldPositions(schema, name)
    IN  IF Cardinality(at) = 1 THEN schema[CHOOSE k \in at : TRUE]
        ELSE NullField

\* arrow::Schema::CanReferenceFieldsByNames: fails when one of the names is
\* not the name of exactly one field.
CanReferenceFieldsByNames(schema, names) ==
    IF \E k \in 1..Len(names) : GetFieldByName(schema, names[k]) = NullField
    THEN StatusInvalid("Invalid: Field named not found or not unique in the schema.")
    ELSE Ok(<<>>)

\* arrow::Field::ToString: "<name>: <type>"
FieldToString(f) == f.name \o <<58, 32>> \o f.type

\* arrow::Schema::ToString: the fields' renderings, one per line.
RECURSIVE SchemaToString(_)
SchemaToString(schema) ==
    IF schema = <<>> THEN <<>>
    ELSE IF Len(schema) = 1 THEN FieldToString(schema[1])
    ELSE FieldToString(schema[1]) \o <<10>> \o SchemaToString(Tail(schema))

\* ------------------------------------------------------------------------
\* libmexclass::proxy::ProxyManager: the process-wide map from identifiers
\* to proxies, and the Field proxy (arrow::matlab::type::proxy::Field).

FieldProxy(f) == [field |-> f]

unwrap(proxy) == proxy.field

\* ProxyManager::getProxy
getProxy(registry, id) == registry.proxy_map[id]

\* ProxyManager::manageProxy: stores the proxy under the next identifier.
manageProxy(registry, proxy) ==
    LET id == registry.current_proxy_id
    IN  [id |-> id,
         registry |-> [proxy_map |-> (id :> proxy) @@ registry.proxy_map,
                       current_proxy_id |-> id + 1]]

\* ------------------------------------------------------------------------
\* libmexclass::error::Error and the error identifiers of
\* arrow/matlab/error/error.h.

Error(id, message) == [id |-> id, message |-> message]

ARROW_TABULAR_SCHEMA_UNKNOWN_FIELD_NAME ==
    "ARROW_TABULAR_SCHEMA_UNKNOWN_FIELD_NAME"

ARROW_TABULAR_SCHEMA_NUMERIC_FIELD_INDEX_WITH_EMPTY_SCHEMA ==
    "ARROW_TABULAR_SCHEMA_NUMERIC_FIELD_INDEX_WITH_EMPTY_SCHEMA"

ARROW_TABULAR_SCHEMA_INVALID_NUMERIC_FIELD_INDEX ==
    "ARROW_TABULAR_SCHEMA_INVALID_NUMERIC_FIELD_INDEX"

ARROW_TABULAR_SCHEMA_AMBIGUOUS_FIELD_NAME ==
    "ARROW_TABULAR_SCHEMA_AMBIGUOUS_FIELD_NAME"

UNICODE_CONVERSION_ERROR_ID == "UNICODE_CONVERSION_ERROR_ID"

makeUnknownFieldNameError(name) ==
    Error(ARROW_TABULAR_SCHEMA_UNKNOWN_FIELD_NAME,
          <<"Unknown field name: '", name, "'.">>)

makeEmptySchemaError ==
    Error(ARROW_TABULAR_SCHEMA_NUMERIC_FIELD_INDEX_WITH_EMPTY_SCHEMA,
          "Numeric indexing using the field method is not supported for schemas with no fields.")

\* ------------------------------------------------------------------------
\* operator<< of an int on a std::stringstream: the decimal digits, with a
\* leading '-' for a negative number.

Digit(d) ==
    CASE d = 0 -> "0" [] d = 1 -> "1" [] d = 2 -> "2" [] d = 3 -> "3"
      [] d = 4 -> "4" [] d = 5 -> "5" [] d = 6 -> "6" [] d = 7 -> "7"
      [] d = 8 -> "8" [] d = 9 -> "9"

RECURSIVE DecimalNat(_)
DecimalNat(n) ==
    IF n < 10 THEN Digit(n) ELSE DecimalNat(n \div 10) \o Digit(n % 10)

\* For a negative n the last digit is split off before negating, so that the
\* least int32 is formatted too.
Decimal(n) ==
    IF n >= 0 THEN DecimalNat(n)
    ELSE LET last == (10 - (n % 10)) % 10
             rest == (n + last) \div 10
         IN  IF rest = 0 THEN "-" \o Digit(last)
             ELSE "-" \o DecimalNat(0 - rest) \o Digit(last)

\* ------------------------------------------------------------------------
\* The Schema proxy.

VARIABLES
    registry,     \* the ProxyManager: [proxy_map, current_proxy_id]
    constructed,  \* whether make has built the Schema proxy
    schema,       \* the proxy's member: the arrow::Schema it holds
    context,      \* the Context of the last method call, as it returned
    calls,        \* the number of method calls made so far
    history       \* what make was given and read right after it, the
                  \* identifiers the lookups returned, whether a call failed

vars == <<registry, constructed, schema, context, calls, history>>

\* What a method leaves behind: the Context's two slots, the registry, the
\* proxy's member, and the arguments with which arrow::Schema::field was
\* called.
NewContext(s, r) ==
    [outputs |-> <<>>, error |-> <<>>, registry |-> r, schema |-> s,
     field_calls |-> <<>>]

\* make, inserting each field at the front of the vector.
make_Reversed(r, FieldProxyIDs) ==
    [k \in 1..Len(FieldProxyIDs) |->
        unwrap(getProxy(r, FieldProxyIDs[Len(FieldProxyIDs) + 1 - k]))]

\* Schema::make: the schema of the fields registered under FieldProxyIDs, in
\* that order.
make(r, FieldProxyIDs) ==
    [k \in 1..Len(FieldProxyIDs) |-> unwrap(getProxy(r, FieldProxyIDs[k]))]

\* Values an int32_t may hold after a signed overflow: the wrapped value,
\* and others an optimising build may produce.
OverflowedInt32 == {MaxInt32, MinInt32, -1, 0, 1}

\* matlab_index - 1 in int32_t: the subtraction overflows for the least
\* int32_t, which is undefined behaviour.
Int32MinusOne(matlab_index) ==
    IF matlab_index = MinInt32 THEN OverflowedInt32 ELSE {matlab_index - 1}

InvalidIndexMessage(matlab_index, n) ==
    "Invalid field index: " \o Decimal(matlab_index)
    \o ". Field index must be between 1 and the number of fields ("
    \o Decimal(n) \o ")."

\* Lines 114-119, shared with getFieldByName's lines 135-140: wrap the
\* field in a Field proxy, register it, emit its identifier.
EmitFieldProxy(ctx, f) ==
    LET managed == manageProxy(ctx.registry, FieldProxy(f))
    IN  [ctx EXCEPT !.outputs = <<managed.id>>,
                    !.registry = managed.registry]

\* getFieldByIndex without the return that ends the range check.
getFieldByIndex_NoReturn(s, r, matlab_index) ==
    LET ctx == NewContext(s, r)
        n == num_fields(s)
        Checked ==
            IF matlab_index < 1 \/ matlab_index > n
            THEN [ctx EXCEPT !.error =
                     <<Error(ARROW_TABULAR_SCHEMA_INVALID_NUMERIC_FIELD_INDEX,
                             InvalidIndexMessage(matlab_index, n))>>]
            ELSE ctx
        Body(index) ==
            IF n = 0
            THEN {[ctx EXCEPT !.error = <<makeEmptySchemaError>>]}
            ELSE {EmitFieldProxy([Checked EXCEPT !.field_calls = <<index>>], f)
                      : f \in field(s, index)}
    IN  UNION {Body(index) : index \in Int32MinusOne(matlab_index)}

\* getFieldByIndex with the range check made before the empty-schema check.
getFieldByIndex_RangeFirst(s, r, matlab_index) ==
    LET ctx == NewContext(s, r)
        n == num_fields(s)
        Body(index) ==
            IF matlab_index < 1 \/ matlab_index > n
            THEN {[ctx EXCEPT !.error =
                      <<Error(ARROW_TABULAR_SCHEMA_INVALID_NUMERIC_FIELD_INDEX,
                              InvalidIndexMessage(matlab_index, n))>>]}
            ELSE IF n = 0
            THEN {[ctx EXCEPT !.error = <<makeEmptySchemaError>>]}
            ELSE {EmitFieldProxy([ctx EXCEPT !.field_calls = <<index>>], f) :
                      f \in field(s, index)}
    IN  UNION {Body(index) : index \in Int32MinusOne(matlab_index)}

\* getFieldByIndex handing the 1-based index to arrow::Schema::field.
getFieldByIndex_NoSubtract(s, r, matlab_index) ==
    LET ctx == NewContext(s, r)
        n == num_fields(s)
    IN  IF n = 0
        THEN {[ctx EXCEPT !.error = <<makeEmptySchemaError>>]}
        ELSE IF matlab_index < 1 \/ matlab_index > n
        THEN {[ctx EXCEPT !.error =
                  <<Error(ARROW_TABULAR_SCHEMA_INVALID_NUMERIC_FIELD_INDEX,
                          InvalidIndexMessage(matlab_index, n))>>]}
        ELSE {EmitFieldProxy([ctx EXCEPT !.field_calls = <<matlab_index>>], f)
                  : f \in field(s, matlab_index)}

\* getFieldByIndex writing the 0-based index into the message.
getFieldByIndex_ZeroBasedMessage(s, r, matlab_index) ==
    LET ctx == NewContext(s, r)
        n == num_fields(s)
        Body(index) ==
            IF n = 0
            THEN {[ctx EXCEPT !.error = <<makeEmptySchemaError>>]}
            ELSE IF matlab_index < 1 \/ matlab_index > n
            THEN {[ctx EXCEPT !.error =
                      <<Error(ARROW_TABULAR_SCHEMA_INVALID_NUMERIC_FIELD_INDEX,
                              InvalidIndexMessage(index, n))>>]}
            ELSE {EmitFieldProxy([ctx EXCEPT !.field_calls = <<index>>], f) :
                      f \in field(s, index)}
    IN  UNION {Body(index) : index \in Int32MinusOne(matlab_index)}

\* getFieldByIndex with the lower bound of the range check off by one.
getFieldByIndex_LowerBoundZero(s, r, matlab_index) ==
    LET ctx == NewContext(s, r)
        n == num_fields(s)
        Body(index) ==
            IF n = 0
            THEN {[ctx EXCEPT !.error = <<makeEmptySchemaError>>]}
            ELSE IF matlab_index < 0 \/ matlab_index > n
            THEN {[ctx EXCEPT !.error =
                      <<Error(ARROW_TABULAR_SCHEMA_INVALID_NUMERIC_FIELD_INDEX,
                              InvalidIndexMessage(matlab_index, n))>>]}
            ELSE {EmitFieldProxy([ctx EXCEPT !.field_calls = <<index>>], f) :
                      f \in field(s, index)}
    IN  UNION {Body(index) : index \in Int32MinusOne(matlab_index)}

\* getFieldByIndex rebinding the member to the schema without the field it
\* hands out.
getFieldByIndex_TakesField(s, r, matlab_index) ==
    LET ctx == NewContext(s, r)
        n == num_fields(s)
        Body(index) ==
            IF n = 0
            THEN {[ctx EXCEPT !.error = <<makeEmptySchemaError>>]}
            ELSE IF matlab_index < 1 \/ matlab_index > n
            THEN {[ctx EXCEPT !.error =
                      <<Error(ARROW_TABULAR_SCHEMA_INVALID_NUMERIC_FIELD_INDEX,
                              InvalidIndexMessage(matlab_index, n))>>]}
            ELSE {EmitFieldProxy(
                      [ctx EXCEPT !.field_calls = <<index>>,
                                  !.schema = SubSeq(s, 1, index)
                                             \o SubSeq(s, index + 2, n)], f) :
                      f \in field(s, index)}
    IN  UNION {Body(index) : index \in Int32MinusOne(matlab_index)}

\* Schema::getFieldByIndex
getFieldByIndex(s, r, matlab_index) ==
    LET ctx == NewContext(s, r)
        n == num_fields(s)
        Body(index) ==
            IF n = 0
            THEN {[ctx EXCEPT !.error = <<makeEmptySchemaError>>]}
            ELSE IF matlab_index < 1 \/ matlab_index > n
            THEN {[ctx EXCEPT !.error =
                      <<Error(ARROW_TABULAR_SCHEMA_INVALID_NUMERIC_FIELD_INDEX,
                              InvalidIndexMessage(matlab_index, n))>>]}
            ELSE {EmitFieldProxy([ctx EXCEPT !.field_calls = <<index>>], f) :
                      f \in field(s, index)}
    IN  UNION {Body(index) : index \in Int32MinusOne(matlab_index)}

\* getFieldByName reporting an absent name with makeUnknownFieldNameError.
getFieldByName_UnknownName(s, r, name_utf16) ==
    LET ctx == NewContext(s, r)
        name == UTF16StringToUTF8(name_utf16)
    IN  IF ~name.ok
        THEN {[ctx EXCEPT !.error =
                  <<Error(UNICODE_CONVERSION_ERROR_ID, name.message)>>]}
        ELSE IF FieldPositions(s, name.value) = {}
        THEN {[ctx EXCEPT !.error = <<makeUnknownFieldNameError(name.value)>>]}
        ELSE LET status == CanReferenceFieldsByNames(s, <<name.value>>)
             IN  IF ~status.ok
                 THEN {[ctx EXCEPT !.error =
                           <<Error(ARROW_TABULAR_SCHEMA_AMBIGUOUS_FIELD_NAME,
                                   status.message)>>]}
                 ELSE {EmitFieldProxy(ctx, GetFieldByName(s, name.value))}

\* getFieldByName registering the Field proxy before it checks the name.
getFieldByName_RegisterFirst(s, r, name_utf16) ==
    LET ctx == NewContext(s, r)
        name == UTF16StringToUTF8(name_utf16)
    IN  IF ~name.ok
        THEN {[ctx EXCEPT !.error =
                  <<Error(UNICODE_CONVERSION_ERROR_ID, name.message)>>]}
        ELSE LET status == CanReferenceFieldsByNames(s, <<name.value>>)
                 emitted == EmitFieldProxy(ctx, GetFieldByName(s, name.value))
             IN  IF ~status.ok
                 THEN {[emitted EXCEPT !.outputs = <<>>, !.error =
                           <<Error(ARROW_TABULAR_SCHEMA_AMBIGUOUS_FIELD_NAME,
                                   status.message)>>]}
                 ELSE {emitted}

\* Schema::getFieldByName
getFieldByName(s, r, name_utf16) ==
    LET ctx == NewContext(s, r)
        name == UTF16StringToUTF8(name_utf16)
    IN  IF ~name.ok
        THEN {[ctx EXCEPT !.error =
                  <<Error(UNICODE_CONVERSION_ERROR_ID, name.message)>>]}
        ELSE LET status == CanReferenceFieldsByNames(s, <<name.value>>)
             IN  IF ~status.ok
                 THEN {[ctx EXCEPT !.error =
                           <<Error(ARROW_TABULAR_SCHEMA_AMBIGUOUS_FIELD_NAME,
                                   status.message)>>]}
                 ELSE {EmitFieldProxy(ctx, GetFieldByName(s, name.value))}

\* Schema::getNumFields
getNumFields(s, r) ==
    LET ctx == NewContext(s, r)
    IN  {[ctx EXCEPT !.outputs = <<num_fields(s)>>]}

\* The loop of getFieldNames (lines 164-167): converts the names in order
\* into field_names_utf16, and stops at the first that does not convert.
RECURSIVE ConvertFieldNames(_, _)
ConvertFieldNames(field_names_utf8, field_names_utf16) ==
    IF field_names_utf8 = <<>> THEN Ok(field_names_utf16)
    ELSE LET field_name_utf16 == UTF8StringToUTF16(Head(field_names_utf8))
         IN  IF ~field_name_utf16.ok THEN field_name_utf16
             ELSE ConvertFieldNames(Tail(field_names_utf8),
                      Append(field_names_utf16, field_name_utf16.value))

\* The names that convert, in order, the others left out.
RECURSIVE ConvertibleFieldNames(_)
ConvertibleFieldNames(field_names_utf8) ==
    IF field_names_utf8 = <<>> THEN <<>>
    ELSE LET field_name_utf16 == UTF8StringToUTF16(Head(field_names_utf8))
             rest == ConvertibleFieldNames(Tail(field_names_utf8))
         IN  IF field_name_utf16.ok THEN <<field_name_utf16.value>> \o rest
             ELSE rest

\* getFieldNames going on after a failed conversion: it sets the error and
\* emits the names that did convert.
getFieldNames_KeepsGoing(s, r) ==
    LET ctx == NewContext(s, r)
        converted == ConvertFieldNames(field_names(s), <<>>)
    IN  IF ~converted.ok
        THEN {[ctx EXCEPT !.error =
                  <<Error(UNICODE_CONVERSION_ERROR_ID, converted.message)>>,
                          !.outputs =
                  <<ConvertibleFieldNames(field_names(s))>>]}
        ELSE {[ctx EXCEPT !.outputs = <<converted.value>>]}

\* Schema::getFieldNames
getFieldNames(s, r) ==
    LET ctx == NewContext(s, r)
        converted == ConvertFieldNames(field_names(s), <<>>)
    IN  IF ~converted.ok
        THEN {[ctx EXCEPT !.error =
                  <<Error(UNICODE_CONVERSION_ERROR_ID, converted.message)>>]}
        ELSE {[ctx EXCEPT !.outputs = <<converted.value>>]}

\* Schema::toString
toString(s, r) ==
    LET ctx == NewContext(s, r)
        str_utf16 == UTF8StringToUTF16(SchemaToString(s))
    IN  IF ~str_utf16.ok
        THEN {[ctx EXCEPT !.error =
                  <<Error(UNICODE_CONVERSION_ERROR_ID, str_utf16.message)>>]}
        ELSE {[ctx EXCEPT !.outputs = <<str_utf16.value>>]}

\* ------------------------------------------------------------------------
\* The inputs of the model.

\* The Field proxies registered before make: a:int8, a:bool, U+00E9:int8
\* (two bytes in UTF-8), and a field whose name is the byte 0xFF (not
\* UTF-8).
RegisteredFields ==
    <<Field(<<97>>, Int8Type), Field(<<97>>, BoolType),
      Field(<<195, 169>>, Int8Type), Field(<<255>>, Int8Type)>>

RECURSIVE SeqsUpTo(_, _)
SeqsUpTo(S, n) ==
    IF n = 0 THEN {<<>>}
    ELSE LET shorter == SeqsUpTo(S, n - 1)
         IN  shorter \cup {Append(q, x) : q \in shorter, x \in S}

\* The FieldProxyIDs sequences given to make.
FieldProxyIDSeqs == SeqsUpTo(0..(Len(RegisteredFields) - 1), MaxFields)

\* The Index values given to getFieldByIndex.
Indices == {MinInt32, -1, 0, MaxInt32} \cup (1..(MaxFields + 1))

\* The Name values given to getFieldByName: "", a, b, U+00E9, U+1F600 (a
\* surrogate pair), and three strings that are not UTF-16: a lone lead
\* surrogate, a lone trail surrogate, and a, then a lone lead surrogate.
Names ==
    {<<>>, <<97>>, <<98>>, <<233>>, <<55357, 56832>>,
     <<55357>>, <<56832>>, <<97, 55357>>}

NoCall == [method |-> "none", inputs |-> <<>>, outputs |-> <<>>,
           error |-> <<>>, field_calls |-> <<>>]

Init ==
    /\ registry =
           [proxy_map |-> [id \in 0..(Len(RegisteredFields) - 1) |->
                              FieldProxy(RegisteredFields[id + 1])],
            current_proxy_id |-> Len(RegisteredFields)]
    /\ constructed = FALSE
    /\ schema = <<>>
    /\ context = NoCall
    /\ calls = 0
    /\ history = [FieldProxyIDs |-> <<>>, ids_at_make |-> {},
                  after_make |-> <<>>, returned |-> <<>>, failed |-> FALSE]

\* The results of the three read-only methods on the proxy as it is.
Readings(s, r) ==
    LET slots(c) == [outputs |-> c.outputs, error |-> c.error]
    IN  [getNumFields |-> {slots(c) : c \in getNumFields(s, r)},
         getFieldNames |-> {slots(c) : c \in getFieldNames(s, r)},
         toString |-> {slots(c) : c \in toString(s, r)}]

\* libmexclass creates the proxy: Schema::make, then the constructor.
Make ==
    /\ ~constructed
    /\ \E FieldProxyIDs \in FieldProxyIDSeqs :
          /\ schema' = make(registry, FieldProxyIDs)
          /\ history' = [FieldProxyIDs |-> FieldProxyIDs,
                         ids_at_make |-> DOMAIN registry.proxy_map,
                         after_make |->
                             <<Readings(make(registry, FieldProxyIDs),
                                        registry)>>,
                         returned |-> <<>>, failed |-> FALSE]
    /\ constructed' = TRUE
    /\ UNCHANGED <<registry, context, calls>>

\* A method call returns as result: the Context is handed back, and the
\* registry and the proxy are as the method left them.
Return(method, inputs, result) ==
    /\ context' = [method |-> method, inputs |-> inputs,
                   outputs |-> result.outputs, error |-> result.error,
                   field_calls |-> result.field_calls]
    /\ registry' = result.registry
    /\ schema' = result.schema
    /\ calls' = calls + 1
    /\ history' =
           IF result.error # <<>>
           THEN [history EXCEPT !.failed = TRUE]
           ELSE IF method \in {"getFieldByIndex", "getFieldByName"}
           THEN [history EXCEPT !.returned =
                     Append(@, [method |-> method, inputs |-> inputs,
                                id |-> result.outputs[1]])]
           ELSE history
    /\ UNCHANGED constructed

CanCall == constructed /\ calls < MaxCalls

CallGetFieldByIndex ==
    /\ CanCall
    /\ \E Index \in Indices :
          \E result \in getFieldByIndex(schema, registry, Index) :
             Return("getFieldByIndex", <<Index>>, result)

CallGetFieldByName ==
    /\ CanCall
    /\ \E Name \in Names :
          \E result \in getFieldByName(schema, registry, Name) :
             Return("getFieldByName", <<Name>>, result)

CallGetNumFields ==
    /\ CanCall
    /\ \E result \in getNumFields(schema, registry) :
          Return("getNumFields", <<>>, result)

CallGetFieldNames ==
    /\ CanCall
    /\ \E result \in getFieldNames(schema, registry) :
          Return("getFieldNames", <<>>, result)

CallToString ==
    /\ CanCall
    /\ \E result \in toString(schema, registry) :
          Return("toString", <<>>, result)

Next ==
    \/ Make
    \/ CallGetFieldByIndex
    \/ CallGetFieldByName
    \/ CallGetNumFields
    \/ CallGetFieldNames
    \/ CallToString

Spec == Init /\ [][Next]_vars

\* ------------------------------------------------------------------------
\* Properties.

Called(method) == context.method = method

Succeeded == context.outputs # <<>> /\ context.error = <<>>

Failed(id) ==
    /\ context.outputs = <<>>
    /\ context.error # <<>>
    /\ context.error[1].id = id

\* What getFieldNames returns on the proxy as it is.
FieldNamesNow == CHOOSE c \in getFieldNames(schema, registry) : TRUE

\* The field registered under the identifier the last call emitted.
EmittedField == unwrap(getProxy(registry, context.outputs[1]))

\* C1: every call of the five methods returns with exactly one of
\* outputs[0] and the error record set, whatever the schema (the empty one
\* included) and the input.
C1_ExactlyOneSlotSet ==
    context.method \in {"getFieldByIndex", "getFieldByName", "getNumFields",
                        "getFieldNames", "toString"}
    => /\ Len(context.outputs) + Len(context.error) = 1
       /\ Succeeded \/ (context.outputs = <<>> /\ context.error # <<>>)

C1_Witness ==
    /\ schema = <<>>
    /\ Called("getFieldByName")
    /\ context.inputs = <<<<97>>>>
    /\ context.outputs = <<>>
    /\ context.error # <<>>

\* C2: getFieldByIndex(i) with i outside [1, n] fails with
\* ARROW_TABULAR_SCHEMA_INVALID_NUMERIC_FIELD_INDEX when n > 0; when n = 0
\* every i fails with
\* ARROW_TABULAR_SCHEMA_NUMERIC_FIELD_INDEX_WITH_EMPTY_SCHEMA, the
\* empty-schema check coming first.
C2_OutOfRangeErrors ==
    Called("getFieldByIndex")
    => LET i == context.inputs[1]
           n == Len(schema)
       IN  /\ n = 0 =>
                Failed(ARROW_TABULAR_SCHEMA_NUMERIC_FIELD_INDEX_WITH_EMPTY_SCHEMA)
           /\ (n > 0 /\ (i < 1 \/ i > n)) =>
                Failed(ARROW_TABULAR_SCHEMA_INVALID_NUMERIC_FIELD_INDEX)
           /\ Len(context.error) <= 1

C2_Witness ==
    /\ Called("getFieldByIndex")
    /\ schema = <<>>
    /\ context.inputs = <<0>>
    /\ Failed(ARROW_TABULAR_SCHEMA_NUMERIC_FIELD_INDEX_WITH_EMPTY_SCHEMA)

\* C3: getFieldByIndex(i) with i in [1, n] succeeds, and the Field proxy it
\* registers wraps the field whose name is the i-th name of the schema:
\* the i-th element of getFieldNames() (when the names convert), also when
\* several fields share a name.
C3_InRangeIndexResolves ==
    (Called("getFieldByIndex") /\ context.inputs[1] \in 1..Len(schema))
    => LET i == context.inputs[1]
       IN  /\ Succeeded
           /\ context.outputs[1] \in DOMAIN registry.proxy_map
           /\ EmittedField.name = field_names(schema)[i]
           /\ FieldNamesNow.outputs # <<>> =>
                 /\ Len(FieldNamesNow.outputs[1]) >= i
                 /\ UTF16StringToUTF8(FieldNamesNow.outputs[1][i])
                       = Ok(EmittedField.name)
                 /\ UTF8StringToUTF16(EmittedField.name)
                       = Ok(FieldNamesNow.outputs[1][i])

C3_Witness ==
    /\ history.FieldProxyIDs = <<0, 1, 2>>
    /\ FieldNamesNow.outputs = << <<<<97>>, <<97>>, <<233>>>> >>
    /\ Called("getFieldByIndex")
    /\ context.inputs = <<2>>
    /\ Succeeded
    /\ EmittedField = Field(<<97>>, BoolType)

\* The number of times x occurs in the sequence q.
Occurrences(q, x) == Cardinality({k \in 1..Len(q) : q[k] = x})

\* C4: for a validly encoded name, getFieldByName(name) succeeds iff the
\* name occurs exactly once among the schema's names, that is exactly once
\* in getFieldNames() (when the names convert); an absent name and a
\* duplicated one both fail with ARROW_TABULAR_SCHEMA_AMBIGUOUS_FIELD_NAME,
\* and ARROW_TABULAR_SCHEMA_UNKNOWN_FIELD_NAME is never produced.
C4_NameResolvesIffUnique ==
    Called("getFieldByName")
    => /\ ~(context.error # <<>> /\
            context.error[1].id = ARROW_TABULAR_SCHEMA_UNKNOWN_FIELD_NAME)
       /\ UTF16StringToUTF8(context.inputs[1]).ok =>
             LET name == context.inputs[1]
                 name_utf8 == UTF16StringToUTF8(name).value
             IN  /\ Succeeded <=>
                        Occurrences(field_names(schema), name_utf8) = 1
                 /\ FieldNamesNow.outputs # <<>> =>
                        (Succeeded <=>
                            Occurrences(FieldNamesNow.outputs[1], name) = 1)
                 /\ Succeeded => EmittedField.name = name_utf8
                 /\ ~Succeeded =>
                        Failed(ARROW_TABULAR_SCHEMA_AMBIGUOUS_FIELD_NAME)

C4_Witness ==
    /\ FieldNamesNow.outputs = << <<<<97>>, <<233>>>> >>
    /\ Called("getFieldByName")
    /\ context.inputs = <<<<98>>>>
    /\ Failed(ARROW_TABULAR_SCHEMA_AMBIGUOUS_FIELD_NAME)

\* C5: the schema make builds has its fields in the order of FieldProxyIDs:
\* getNumFields() is the length of FieldProxyIDs, and getFieldNames() has
\* that length and as k-th name the name of the field registered under the
\* k-th identifier.
C5_MakePreservesOrder ==
    constructed
    => LET ids == history.FieldProxyIDs
           made == history.after_make[1]
           NameOf(k) == unwrap(getProxy(registry, ids[k])).name
       IN  /\ made.getNumFields = {[outputs |-> <<Len(ids)>>, error |-> <<>>]}
           /\ \A c \in made.getFieldNames :
                 c.outputs # <<>> =>
                    /\ Len(c.outputs[1]) = Len(ids)
                    /\ \A k \in 1..Len(ids) :
                          UTF16StringToUTF8(c.outputs[1][k]) = Ok(NameOf(k))
           /\ (Called("getNumFields") => context.outputs = <<Len(ids)>>)
           /\ (Called("getFieldNames") /\ Succeeded) =>
                 /\ Len(context.outputs[1]) = Len(ids)
                 /\ \A k \in 1..Len(ids) :
                       UTF16StringToUTF8(context.outputs[1][k]) = Ok(NameOf(k))

C5_Witness ==
    /\ history.FieldProxyIDs = <<2, 0, 1>>
    /\ Called("getFieldNames")
    /\ context.outputs = << <<<<233>>, <<97>>, <<97>>>> >>

\* C6: the identifiers the successful getFieldByIndex and getFieldByName
\* calls returned are pairwise distinct and none was registered before; the
\* registry has grown by one entry per successful call and by none for a
\* failed call.
C6_FreshIdentifiers ==
    constructed
    => LET returned == history.returned
       IN  /\ \A j, k \in 1..Len(returned) :
                 j # k => returned[j].id # returned[k].id
           /\ \A k \in 1..Len(returned) :
                 /\ returned[k].id \notin history.ids_at_make
                 /\ returned[k].id \in DOMAIN registry.proxy_map
           /\ Cardinality(DOMAIN registry.proxy_map)
                 = Cardinality(history.ids_at_make) + Len(returned)

C6_Witness ==
    /\ Len(history.returned) = 2
    /\ history.returned[1].method = history.returned[2].method
    /\ history.returned[1].inputs = history.returned[2].inputs
    /\ history.returned[1].id # history.returned[2].id

\* C7: no call changes or rebinds the schema the proxy holds: after any
\* calls, failed ones included, getNumFields(), getFieldNames() and
\* toString() return what they returned right after make.
C7_SchemaNeverChanges ==
    constructed
    => LET made == history.after_make[1]
           slots == [outputs |-> context.outputs, error |-> context.error]
       IN  /\ schema = make(registry, history.FieldProxyIDs)
           /\ Readings(schema, registry) = made
           /\ Called("getNumFields") => slots \in made.getNumFields
           /\ Called("getFieldNames") => slots \in made.getFieldNames
           /\ Called("toString") => slots \in made.toString

C7_Witness ==
    /\ Len(schema) = 2
    /\ history.failed
    /\ Len(history.returned) = 0
    /\ calls = 2
    /\ Called("toString")
    /\ Succeeded

\* C8: a call in which a UTF conversion fails ends with
\* UNICODE_CONVERSION_ERROR_ID and no output: getFieldByName with a name that
\* is not UTF-16, on every schema and before the name is resolved (nothing
\* is registered); getFieldNames whichever of the names fails to convert (no
\* partial list); toString when the rendering fails to convert.
C8_ConversionFailureReported ==
    [][calls' = calls + 1 =>
         LET ConversionFailed ==
                 /\ context'.outputs = <<>>
                 /\ context'.error # <<>>
                 /\ context'.error[1].id = UNICODE_CONVERSION_ERROR_ID
         IN  /\ (context'.method = "getFieldByName" /\
                 ~UTF16StringToUTF8(context'.inputs[1]).ok)
                => /\ ConversionFailed
                   /\ registry' = registry
                   /\ history'.returned = history.returned
             /\ (context'.method = "getFieldNames" /\
                 \E k \in 1..Len(schema) :
                    ~UTF8StringToUTF16(schema[k].name).ok)
                => ConversionFailed
             /\ (context'.method = "toString" /\
                 ~UTF8StringToUTF16(SchemaToString(schema)).ok)
                => ConversionFailed
      ]_vars

C8_Witness ==
    /\ Called("getFieldNames")
    /\ history.FieldProxyIDs = <<0, 3, 2>>
    /\ Failed(UNICODE_CONVERSION_ERROR_ID)

\* C9: the message of ARROW_TABULAR_SCHEMA_INVALID_NUMERIC_FIELD_INDEX
\* embeds the 1-based index as received and the field count n:
\* 'Invalid field index: <index>. Field index must be between 1 and the
\* number of fields (<n>).'
C9_InvalidIndexMessage ==
    (Called("getFieldByIndex") /\ context.error # <<>> /\
     context.error[1].id = ARROW_TABULAR_SCHEMA_INVALID_NUMERIC_FIELD_INDEX)
    => LET i == context.inputs[1]
           n == Len(schema)
           message == context.error[1].message
       IN  /\ message = "Invalid field index: " \o Decimal(i)
                 \o ". Field index must be between 1 and the number of fields ("
                 \o Decimal(n) \o ")."
           /\ (i = 0 /\ n = 3) => message =
                 "Invalid field index: 0. Field index must be between 1 and the number of fields (3)."
           /\ (i = 4 /\ n = 3) => message =
                 "Invalid field index: 4. Field index must be between 1 and the number of fields (3)."
           /\ (i = -1 /\ n = 1) => message =
                 "Invalid field index: -1. Field index must be between 1 and the number of fields (1)."
           /\ (i = MinInt32 /\ n = 2) => message =
                 "Invalid field index: -2147483648. Field index must be between 1 and the number of fields (2)."
           /\ (i = MaxInt32 /\ n = 2) => message =
                 "Invalid field index: 2147483647. Field index must be between 1 and the number of fields (2)."

C9_Witness ==
    /\ Called("getFieldByIndex")
    /\ Len(schema) = 3
    /\ context.inputs = <<0>>
    /\ context.error = <<Error(ARROW_TABULAR_SCHEMA_INVALID_NUMERIC_FIELD_INDEX,
          "Invalid field index: 0. Field index must be between 1 and the number of fields (3).")>>

\* C10: getFieldByIndex reaches arrow::Schema::field only with the received
\* Index minus 1, and only when that is in 0..n-1; the value computed for
\* the least int32 Index is never used as an index.
C10_FieldCalledInRange ==
    Called("getFieldByIndex")
    => LET i == context.inputs[1]
           n == Len(schema)
       IN  /\ Len(context.field_calls) <= 1
           /\ context.field_calls # <<>> =>
                 /\ i # MinInt32
                 /\ context.field_calls[1] = i - 1
                 /\ context.field_calls[1] >= 0
                 /\ context.field_calls[1] <= n - 1
           /\ Succeeded => context.field_calls # <<>>

C10_Witness ==
    /\ Called("getFieldByIndex")
    /\ Len(schema) = 2
    /\ context.inputs = <<MinInt32>>
    /\ context.field_calls = <<>>
    /\ Failed(ARROW_TABULAR_SCHEMA_INVALID_NUMERIC_FIELD_INDEX)

=============================================================================
